---- MODULE Spec2Model ----
(***************************************************************************)
(* Model of minecraft_tester.py: the MinecraftTester class                 *)
(* (monitor_logs, analyze_log_content, generate_report, run_test).         *)
(*                                                                         *)
(* Text is modelled as a sequence of pieces.  A piece is a run of          *)
(* characters that the patterns of the program never split: every literal  *)
(* of a pattern is a sequence of whole pieces, so a regular-expression     *)
(* search over characters and the search over pieces defined here agree on *)
(* the log lines of LogLines.  The piece "\n" is the newline character.    *)
(***************************************************************************)
EXTENDS Integers, Sequences, FiniteSets, TLC

(* ------------------------------ bounds --------------------------------- *)
\* most lines a log file holds
MaxLines == 2
\* most calls of monitor_logs on one tester
MaxCalls == 2

(* ------------------------- program constants --------------------------- *)
\* warnings[:5]
WarningsShown == 5
\* issue['message'][:100]
MessageShown == 100

NL == "\n"

(* --------------------------- regular expressions ----------------------- *)
\* str.lower() on a piece; re.IGNORECASE folds the pattern and the text alike
LowerTable ==
  [ p \in { "Error", "Failed to load ", "ModLoadingException",
            "Missing required dependency", "Unsatisfied dependency",
            "Version conflict", "Incompatible mod version",
            "FileNotFoundException", "Could not find file", "Missing file",
            "Mixin apply failed", "MixinException", "Mixin conflict",
            "OutOfMemory", "Java heap space", "GC overhead limit",
            "Duplicate mod", "Found duplicate", "Multiple mods with same",
            "Configuration error", "Invalid config", "Config parse error",
            "UnsupportedClassVersion", "Java version", "JVM crash",
            "FML", "Forge", "ModLauncher",
            "Minecraft ", "Successfully loaded", "Client successfully started",
            "Reached ", "JAVA VERSION" } |->
      CASE p = "Error" -> "error"
        [] p = "Failed to load " -> "failed to load "
        [] p = "ModLoadingException" -> "modloadingexception"
        [] p = "Missing required dependency" -> "missing required dependency"
        [] p = "Unsatisfied dependency" -> "unsatisfied dependency"
        [] p = "Version conflict" -> "version conflict"
        [] p = "Incompatible mod version" -> "incompatible mod version"
        [] p = "FileNotFoundException" -> "filenotfoundexception"
        [] p = "Could not find file" -> "could not find file"
        [] p = "Missing file" -> "missing file"
        [] p = "Mixin apply failed" -> "mixin apply failed"
        [] p = "MixinException" -> "mixinexception"
        [] p = "Mixin conflict" -> "mixin conflict"
        [] p = "OutOfMemory" -> "outofmemory"
        [] p = "Java heap space" -> "java heap space"
        [] p = "GC overhead limit" -> "gc overhead limit"
        [] p = "Duplicate mod" -> "duplicate mod"
        [] p = "Found duplicate" -> "found duplicate"
        [] p = "Multiple mods with same" -> "multiple mods with same"
        [] p = "Configuration error" -> "configuration error"
        [] p = "Invalid config" -> "invalid config"
        [] p = "Config parse error" -> "config parse error"
        [] p = "UnsupportedClassVersion" -> "unsupportedclassversion"
        [] p = "Java version" -> "java version"
        [] p = "JVM crash" -> "jvm crash"
        [] p = "FML" -> "fml"
        [] p = "Forge" -> "forge"
        [] p = "ModLauncher" -> "modlauncher"
        [] p = "Minecraft " -> "minecraft "
        [] p = "Successfully loaded" -> "successfully loaded"
        [] p = "Client successfully started" -> "client successfully started"
        [] p = "Reached " -> "reached "
        [] p = "JAVA VERSION" -> "java version" ]

Lower(p) == IF p \in DOMAIN LowerTable THEN LowerTable[p] ELSE p

\* the flag re.IGNORECASE: both sides are folded before they are compared
IgnoreCase(p) == Lower(p)

\* a literal of a pattern matches the text s at position i
MatchAt(lit, s, i) ==
  /\ i >= 1
  /\ i + Len(lit) - 1 <= Len(s)
  /\ \A j \in 1..Len(lit) : IgnoreCase(s[i + j - 1]) = IgnoreCase(lit[j])

\* a variant of "." under re.DOTALL: it matches a newline too
DotAll(p) == TRUE

\* what "." matches: any character except a newline (no re.DOTALL)
Dot(p) == p # NL

\* ".*" matches s[i..q-1]
DotStar(s, i, q) == \A j \in i..(q - 1) : Dot(s[j])

\* the literals alt[n..] of one alternative, each after a ".*", match s from i
RECURSIVE RestMatches(_, _, _, _)
RestMatches(alt, n, s, i) ==
  IF n > Len(alt) THEN TRUE
  ELSE \E q \in i..Len(s) :
         /\ DotStar(s, i, q)
         /\ MatchAt(alt[n], s, q)
         /\ RestMatches(alt, n + 1, s, q + Len(alt[n]))

\* one alternative lit1.*lit2.*... is found somewhere in s
AltSearch(alt, s) ==
  \E p \in 1..Len(s) :
    MatchAt(alt[1], s, p) /\ RestMatches(alt, 2, s, p + Len(alt[1]))

\* re.search(pattern, s, re.IGNORECASE) is not None; a pattern is a1|a2|...
re_search(pattern, s) == \E a \in 1..Len(pattern) : AltSearch(pattern[a], s)

(* ------------------------------ the tables ----------------------------- *)
\* the keys of self.error_patterns, in insertion order (dict iteration order)
ErrorKinds ==
  << "mod_loading_error", "dependency_missing", "version_conflict",
     "file_not_found", "mixin_error", "memory_error", "duplicate_mod",
     "config_error", "java_error", "forge_error" >>

\* self.error_patterns[kind]
error_patterns(kind) ==
  CASE kind = "mod_loading_error" ->
         << << <<"Error", " loading ", "mod">> >>,
            << <<"Failed to load ", "mod">> >>,
            << <<"ModLoadingException">> >> >>
    [] kind = "dependency_missing" ->
         << << <<"Missing required dependency">> >>,
            << <<"Unsatisfied dependency">> >> >>
    [] kind = "version_conflict" ->
         << << <<"Version conflict">> >>,
            << <<"Incompatible mod version">> >>,
            << <<"requires version">> >> >>
    [] kind = "file_not_found" ->
         << << <<"FileNotFoundException">> >>,
            << <<"Could not find file">> >>,
            << <<"Missing file">> >> >>
    [] kind = "mixin_error" ->
         << << <<"Mixin apply failed">> >>,
            << <<"MixinException">> >>,
            << <<"Mixin conflict">> >> >>
    [] kind = "memory_error" ->
         << << <<"OutOfMemory", "Error">> >>,
            << <<"Java heap space">> >>,
            << <<"GC overhead limit">> >> >>
    [] kind = "duplicate_mod" ->
         << << <<"Duplicate mod">> >>,
            << <<"Found duplicate">> >>,
            << <<"Multiple mods with same">> >> >>
    [] kind = "config_error" ->
         << << <<"Configuration error">> >>,
            << <<"Invalid config">> >>,
            << <<"Config parse error">> >> >>
    [] kind = "java_error" ->
         << << <<"UnsupportedClassVersion", "Error">> >>,
            << <<"Java version">> >>,
            << <<"JVM crash">> >> >>
    [] kind = "forge_error" ->
         << << <<"FML">> >>,
            << <<"Forge">>, <<"error">> >>,
            << <<"ModLauncher">>, <<"error">> >> >>

\* self.success_patterns
success_patterns ==
  << << << <<"Minecraft ", "main menu">>, <<"displayed">> >> >>,
     << << <<"Successfully loaded">>, <<"main menu">> >> >>,
     << << <<"Client successfully started">> >> >>,
     << << <<"Reached ", "main menu">> >> >> >>

\* the kinds the severity expression lists
CriticalKinds == {"mod_loading_error", "memory_error", "java_error"}

(* ------------------------------ the input ------------------------------ *)
\* the log lines a file is made of
LogLines ==
  { <<"Forge", ":", " ", "Error", " loading ", "mod", ":", " ", "examplemod">>,
    <<"[", "FML", "]", " ", "Missing required dependency">>,
    <<"Version conflict", ":", " ", "Missing file", " ", "Invalid config">>,
    <<"OutOfMemory", "Error", ":", " ", "Java heap space">>,
    <<"Reached ", "main menu">>,
    <<"Minecraft ", "main menu">>,
    <<"displayed">>,
    <<" ", "JAVA VERSION", " ">>,
    <<"Client successfully started", " ", "Mixin conflict">> }

RECURSIVE SeqsUpTo(_, _)
SeqsUpTo(S, n) ==
  IF n = 0 THEN {<<>>}
  ELSE LET shorter == SeqsUpTo(S, n - 1)
       IN  shorter \cup { Append(t, x) : t \in {u \in shorter : Len(u) = n - 1}, x \in S }

\* the text of a file whose lines are ls: the lines joined by newlines
RECURSIVE JoinLines(_)
JoinLines(ls) ==
  IF Len(ls) = 0 THEN <<>>
  ELSE IF Len(ls) = 1 THEN ls[1]
  ELSE ls[1] \o <<NL>> \o JoinLines(Tail(ls))

\* the texts a log file can hold
Contents == { JoinLines(ls) : ls \in SeqsUpTo(LogLines, MaxLines) }

(* ------------------------------ strings -------------------------------- *)
\* content.split('\n'): the pieces between the newlines, at least one line
RECURSIVE SplitFrom(_, _, _)
SplitFrom(s, i, cur) ==
  IF i > Len(s) THEN <<cur>>
  ELSE IF s[i] = NL THEN <<cur>> \o SplitFrom(s, i + 1, <<>>)
  ELSE SplitFrom(s, i + 1, Append(cur, s[i]))

split(s) == SplitFrom(s, 1, <<>>)

\* the pieces that are white space
IsSpace(p) == p \in {" ", NL}

\* str.strip(): white space removed from both ends
RECURSIVE strip(_)
strip(s) ==
  IF Len(s) = 0 THEN s
  ELSE IF IsSpace(s[1]) THEN strip(Tail(s))
  ELSE IF IsSpace(s[Len(s)]) THEN strip(SubSeq(s, 1, Len(s) - 1))
  ELSE s

\* the class [:\s] and the class [a-zA-Z0-9_] of the mod-name pattern
IsModSep(p) == p \in {":", " "}
IsIdentifier(p) ==
  p \in {"examplemod", "mod", "Error", "OutOfMemory", "FML", "Forge", "displayed"}

\* [:\s]+ from position i on: the position after the separators
RECURSIVE SepEnd(_, _)
SepEnd(s, i) == IF i <= Len(s) /\ IsModSep(s[i]) THEN SepEnd(s, i + 1) ELSE i

\* [a-zA-Z0-9_]+ from position i on: the position after the name
RECURSIVE NameEnd(_, _)
NameEnd(s, i) == IF i <= Len(s) /\ IsIdentifier(s[i]) THEN NameEnd(s, i + 1) ELSE i

\* mod[:\s]+([a-zA-Z0-9_]+) matches s at position i: "mod", separators, a name
ModMatchAt(s, i) ==
  /\ IgnoreCase(s[i]) = "mod"
  /\ SepEnd(s, i + 1) > i + 1
  /\ NameEnd(s, SepEnd(s, i + 1)) > SepEnd(s, i + 1)

\* mod_match.group(1) if mod_match else "unknown", for the leftmost match
mod_name(line) ==
  LET starts == { i \in 1..Len(line) : ModMatchAt(line, i) } IN
  IF starts = {} THEN <<"unknown">>
  ELSE LET i == CHOOSE k \in starts : \A m \in starts : k <= m
           b == SepEnd(line, i + 1)
       IN  SubSeq(line, b, NameEnd(line, b) - 1)

(* ---------------------------- classification --------------------------- *)
\* a variant of the severity expression with forge_error in place of java_error
SeverityOtherList(kind) ==
  IF kind \in {"mod_loading_error", "memory_error", "forge_error"}
  THEN "critical" ELSE "warning"

\* "critical" if error_type in [...] else "warning"
Severity(kind) == IF kind \in CriticalKinds THEN "critical" ELSE "warning"

\* the dict appended for one match
Issue(kind, line, now) ==
  [ type |-> kind, message |-> strip(line), mod |-> mod_name(line),
    severity |-> Severity(kind), timestamp |-> now ]

\* a variant of the inner loop with a `break` after the first match
RECURSIVE LineIssuesFirstMatch(_, _, _)
LineIssuesFirstMatch(line, k, now) ==
  IF k > Len(ErrorKinds) THEN <<>>
  ELSE IF re_search(error_patterns(ErrorKinds[k]), line)
  THEN <<Issue(ErrorKinds[k], line, now)>>
  ELSE LineIssuesFirstMatch(line, k + 1, now)

\* the inner loop over self.error_patterns.items() for one line, from key k on
RECURSIVE LineIssues(_, _, _)
LineIssues(line, k, now) ==
  IF k > Len(ErrorKinds) THEN <<>>
  ELSE (IF re_search(error_patterns(ErrorKinds[k]), line)
        THEN <<Issue(ErrorKinds[k], line, now)>> ELSE <<>>)
       \o LineIssues(line, k + 1, now)

\* the outer loop over the lines i..n of the text
RECURSIVE LinesIssues(_, _, _, _)
LinesIssues(lines, i, n, now) ==
  IF i > n \/ i > Len(lines) THEN <<>>
  ELSE LineIssues(lines[i], 1, now) \o LinesIssues(lines, i + 1, n, now)

\* a variant of the outer loop that stops at the first line with a success phrase
RECURSIVE LinesUntilSuccess(_, _, _, _)
LinesUntilSuccess(lines, i, n, now) ==
  IF i > n \/ i > Len(lines) THEN <<>>
  ELSE IF \E k \in 1..Len(success_patterns) : re_search(success_patterns[k], lines[i])
  THEN LineIssues(lines[i], 1, now)
  ELSE LineIssues(lines[i], 1, now) \o LinesUntilSuccess(lines, i + 1, n, now)

analyze_until_success(text, n, now) == LinesUntilSuccess(split(text), 1, n, now)

\* what analyze_log_content appends to self.issues when it processes the
\* first n lines of the text
analyze_log_content(text, n, now) == LinesIssues(split(text), 1, n, now)

\* the loop over self.success_patterns: some pattern is found in the text
success_found(text) ==
  \E k \in 1..Len(success_patterns) : re_search(success_patterns[k], text)

(* ------------------------------ monitor_logs --------------------------- *)
\* the issue appended when self.log_file.exists() is false
FileNotFoundIssue ==
  [ type |-> "file_not_found",
    message |-> <<"Log file not found: ", "logs/latest.log">>,
    severity |-> "critical" ]

\* the issue the except clause appends; e is the text of the exception
ReadErrorIssue(e) ==
  [ type |-> "log_read_error",
    message |-> <<"Error reading log file: ", e>>,
    severity |-> "critical" ]

\* The step of the try block of monitor_logs that raises, if any:
\*   open     open(self.log_file) raises            (line 66)
\*   read     f.read() raises                       (line 67)
\*   analyze  analyze_log_content raises after it processed `lines` lines
\*   print    print after self.startup_successful = True raises (line 74)
NoFault == [at |-> "none", lines |-> 0]

Faults(text) ==
  {NoFault, [at |-> "open", lines |-> 0], [at |-> "read", lines |-> 0]}
    \cup { [at |-> "analyze", lines |-> k] : k \in 0..(Len(split(text)) - 1) }
    \cup (IF success_found(text) THEN {[at |-> "print", lines |-> 0]} ELSE {})

ExceptionText(flt) ==
  CASE flt.at = "open" -> "PermissionError"
    [] flt.at = "read" -> "OSError"
    [] flt.at = "analyze" -> "MemoryError"
    [] flt.at = "print" -> "UnicodeEncodeError"
    [] OTHER -> "none"

\* a variant of the except clause that drops the exception: `except: pass`
except_pass(iss, flt) == iss

\* the except clause: the read-error issue is appended to self.issues
except_clause(iss, flt) == Append(iss, ReadErrorIssue(ExceptionText(flt)))

\* the try statement: self.issues and self.startup_successful after it
try_block(text, flt, iss, flag, now) ==
  IF flt.at \in {"open", "read"}
  THEN [issues |-> except_clause(iss, flt), startup_successful |-> flag]
  ELSE IF flt.at = "analyze"
  THEN [issues |-> except_clause(iss \o analyze_log_content(text, flt.lines, now), flt),
        startup_successful |-> flag]
  ELSE LET all == iss \o analyze_log_content(text, Len(split(text)), now) IN
       IF success_found(text)
       THEN [issues |-> IF flt.at = "print" THEN except_clause(all, flt) ELSE all,
             startup_successful |-> TRUE]
       ELSE [issues |-> all, startup_successful |-> flag]

\* a variant of monitor_logs without the `return` of line 63: the try block
\* runs for a missing file too, and open() raises
monitor_logs_no_return(exists, text, flt, iss, flag, now) ==
  IF ~exists
  THEN try_block(text, [at |-> "open", lines |-> 0],
                 Append(iss, FileNotFoundIssue), flag, now)
  ELSE try_block(text, flt, iss, flag, now)

\* a variant of monitor_logs that returns at once when a success was seen before
monitor_logs_once(exists, text, flt, iss, flag, now) ==
  IF flag THEN [issues |-> iss, startup_successful |-> flag]
  ELSE IF ~exists
  THEN [issues |-> Append(iss, FileNotFoundIssue), startup_successful |-> flag]
  ELSE try_block(text, flt, iss, flag, now)

\* self.issues and self.startup_successful when monitor_logs returns
monitor_logs(exists, text, flt, iss, flag, now) ==
  IF ~exists
  THEN [issues |-> Append(iss, FileNotFoundIssue), startup_successful |-> flag]
  ELSE try_block(text, flt, iss, flag, now)

(* ----------------------------- generate_report ------------------------- *)
\* [i for i in issues if i["severity"] == sev]
RECURSIVE WithSeverity(_, _)
WithSeverity(iss, sev) ==
  IF Len(iss) = 0 THEN <<>>
  ELSE (IF iss[1].severity = sev THEN <<iss[1]>> ELSE <<>>)
       \o WithSeverity(Tail(iss), sev)

\* a variant of generate_report that counts the critical issues by their kind
generate_report_by_kind(iss, flag, now) ==
  [ test_timestamp |-> now,
    minecraft_directory |-> "minecraft_dir",
    startup_successful |-> flag,
    total_issues |-> Len(iss),
    critical_issues |-> Cardinality({ n \in 1..Len(iss) : iss[n].type \in CriticalKinds }),
    warning_issues |-> Len(WithSeverity(iss, "warning")),
    issues |-> iss ]

\* the report dict
generate_report(iss, flag, now) ==
  [ test_timestamp |-> now,
    minecraft_directory |-> "minecraft_dir",
    startup_successful |-> flag,
    total_issues |-> Len(iss),
    critical_issues |-> Len(WithSeverity(iss, "critical")),
    warning_issues |-> Len(WithSeverity(iss, "warning")),
    issues |-> iss ]

\* str.upper() on an issue type
Upper(kind) ==
  CASE kind = "mod_loading_error" -> "MOD_LOADING_ERROR"
    [] kind = "dependency_missing" -> "DEPENDENCY_MISSING"
    [] kind = "version_conflict" -> "VERSION_CONFLICT"
    [] kind = "file_not_found" -> "FILE_NOT_FOUND"
    [] kind = "mixin_error" -> "MIXIN_ERROR"
    [] kind = "memory_error" -> "MEMORY_ERROR"
    [] kind = "duplicate_mod" -> "DUPLICATE_MOD"
    [] kind = "config_error" -> "CONFIG_ERROR"
    [] kind = "java_error" -> "JAVA_ERROR"
    [] kind = "forge_error" -> "FORGE_ERROR"
    [] kind = "log_read_error" -> "LOG_READ_ERROR"

\* message[:100], to whole pieces: the pieces that fit into `room` characters
RECURSIVE TakeChars(_, _, _)
TakeChars(msg, i, room) ==
  IF i > Len(msg) \/ Len(msg[i]) > room THEN <<>>
  ELSE <<msg[i]>> \o TakeChars(msg, i + 1, room - Len(msg[i]))

\* the lines printed for the critical issues
RECURSIVE CriticalLines(_)
CriticalLines(crit) ==
  IF Len(crit) = 0 THEN <<>>
  ELSE << [line |-> "critical_entry", type |-> Upper(crit[1].type),
           message |-> TakeChars(crit[1].message, 1, MessageShown)] >>
       \o (IF "mod" \in DOMAIN crit[1] /\ crit[1].mod # <<"unknown">>
           THEN << [line |-> "related_mod", mod |-> crit[1].mod] >> ELSE <<>>)
       \o CriticalLines(Tail(crit))

\* the slice warnings[:n]
FirstN(s, n) == SubSeq(s, 1, IF Len(s) < n THEN Len(s) ELSE n)

\* the lines printed for the warnings shown
RECURSIVE WarningLines(_)
WarningLines(warn) ==
  IF Len(warn) = 0 THEN <<>>
  ELSE << [line |-> "warning_entry", type |-> Upper(warn[1].type),
           message |-> TakeChars(warn[1].message, 1, MessageShown)] >>
       \o WarningLines(Tail(warn))

\* a variant of the warnings block with `>=` in place of `>` at line 163
WarningsBlockAtLeast(warnings) ==
  IF Len(warnings) = 0 THEN <<>>
  ELSE << [line |-> "warnings_header"] >>
       \o WarningLines(FirstN(warnings, WarningsShown))
       \o (IF Len(warnings) >= WarningsShown
           THEN << [line |-> "more", n |-> Len(warnings) - WarningsShown] >>
           ELSE <<>>)

\* the block printed under `if warnings:`
WarningsBlock(warnings) ==
  IF Len(warnings) = 0 THEN <<>>
  ELSE << [line |-> "warnings_header"] >>
       \o WarningLines(FirstN(warnings, WarningsShown))
       \o (IF Len(warnings) > WarningsShown
           THEN << [line |-> "more", n |-> Len(warnings) - WarningsShown] >>
           ELSE <<>>)

\* the block printed under `if critical:`
CriticalBlock(critical) ==
  IF Len(critical) = 0 THEN <<>>
  ELSE << [line |-> "critical_header"] >> \o CriticalLines(critical)

\* everything generate_report prints
console_summary(iss, flag, rep) ==
  << [line |-> "rule"], [line |-> "title"], [line |-> "rule"],
     [line |-> "completed", at |-> rep.test_timestamp],
     [line |-> "startup_successful", yes |-> flag],
     [line |-> "total_issues", n |-> rep.total_issues],
     [line |-> "critical_issues", n |-> rep.critical_issues],
     [line |-> "warnings", n |-> rep.warning_issues] >>
  \o (IF Len(iss) = 0 THEN <<>>
      ELSE << [line |-> "issues_detected"], [line |-> "dashes"] >>
           \o CriticalBlock(WithSeverity(iss, "critical"))
           \o WarningsBlock(WithSeverity(iss, "warning")))
  \o << [line |-> "saved_to"] >>

(* -------------------------------- state -------------------------------- *)
VARIABLES
  log_exists,          \* self.log_file.exists()
  content,             \* the text of the log file
  fault,               \* the step of monitor_logs' try block that raises, if any
  issues,              \* self.issues
  startup_successful,  \* self.startup_successful
  clock,               \* datetime.now()
  calls,               \* calls of monitor_logs that have returned
  history,             \* per call of monitor_logs, the issues it appended
  report,              \* <<the dict generate_report wrote last>>, or <<>>
  console,             \* the lines generate_report printed last
  reportCalls,         \* the value of calls when that report was made
  mainPc,              \* run_test: where the main thread is
  monPc,               \* run_test: where the monitor thread is
  monLine,             \* monitor thread: index of the line under analysis
  monKey,              \* monitor thread: index of the signature under test
  partial              \* generate_report in run_test: the fields computed so far

vars ==
  << log_exists, content, fault, issues, startup_successful, clock, calls,
     history, report, console, reportCalls, mainPc, monPc, monLine,
     monKey, partial >>

fileVars == << log_exists, content, fault >>
runVars == << mainPc, monPc, monLine, monKey, partial >>
apiVars == << calls, history, reportCalls >>

NoPartial == [total_issues |-> 0, critical_issues |-> 0, warning_issues |-> 0,
              startup_successful |-> FALSE, test_timestamp |-> 0]

\* the state after MinecraftTester.__init__, for every log file and fault
Init ==
  /\ \E e \in BOOLEAN, c \in Contents :
       \E f \in Faults(c) :
         /\ e \/ (c = <<>> /\ f = NoFault)
         /\ log_exists = e
         /\ content = c
         /\ fault = f
  /\ issues = <<>>
  /\ startup_successful = FALSE
  /\ clock = 0
  /\ calls = 0
  /\ history = <<>>
  /\ report = <<>>
  /\ console = <<>>
  /\ reportCalls = 0
  /\ mainPc = "start"
  /\ monPc = "not_started"
  /\ monLine = 1
  /\ monKey = 1
  /\ partial = NoPartial

(* ------------------- the methods called one after another -------------- *)
\* tester.monitor_logs()
MonitorLogs ==
  /\ calls < MaxCalls
  /\ \E r \in { monitor_logs(log_exists, content, fault, issues,
                             startup_successful, clock) } :
       /\ issues' = r.issues
       /\ startup_successful' = r.startup_successful
       /\ history' = Append(history, SubSeq(r.issues, Len(issues) + 1, Len(r.issues)))
  /\ calls' = calls + 1
  /\ clock' = clock + 1
  /\ UNCHANGED << fileVars, report, console, reportCalls, runVars >>

\* tester.generate_report()
GenerateReport ==
  /\ \E rep \in { generate_report(issues, startup_successful, clock) } :
       /\ report' = <<rep>>
       /\ console' = console_summary(issues, startup_successful, rep)
  /\ reportCalls' = calls
  /\ UNCHANGED << fileVars, issues, startup_successful, clock, calls, history, runVars >>

Next == MonitorLogs \/ GenerateReport

Spec == Init /\ [][Next]_vars

(* ------------------------------- run_test ------------------------------ *)
\* launch_minecraft(): prints and returns True
launch_minecraft == TRUE

\* the lines of the text the monitor thread analyses
MonLines == split(content)

\* Main thread, lines 176-177: if not self.launch_minecraft(): return report
Launch ==
  /\ mainPc = "start"
  /\ mainPc' = IF launch_minecraft THEN "spawn" ELSE "finally"
  /\ UNCHANGED << fileVars, issues, startup_successful, clock, apiVars, report,
                  console, monPc, monLine, monKey, partial >>

\* Main thread, lines 180-181: the monitor thread is created and started
StartThread ==
  /\ mainPc = "spawn"
  /\ mainPc' = "join"
  /\ monPc' = "exists"
  /\ UNCHANGED << fileVars, issues, startup_successful, clock, apiVars, report,
                  console, monLine, monKey, partial >>

\* Main thread, line 182: join returns when the monitor thread has ended
Join ==
  /\ mainPc = "join"
  /\ monPc = "done"
  /\ mainPc' = "finally"
  /\ UNCHANGED << fileVars, issues, startup_successful, clock, apiVars, report,
                  console, monPc, monLine, monKey, partial >>

\* Main thread, lines 184-185: a KeyboardInterrupt raised inside the try
\* block is caught; the monitor thread is not stopped
KeyboardInterrupt ==
  /\ mainPc \in {"start", "spawn", "join"}
  /\ mainPc' = "finally"
  /\ UNCHANGED << fileVars, issues, startup_successful, clock, apiVars, report,
                  console, monPc, monLine, monKey, partial >>

\* Main thread, lines 186-187: terminate_minecraft(); self.process is None
Finally ==
  /\ mainPc = "finally"
  /\ mainPc' = "g_total"
  /\ UNCHANGED << fileVars, issues, startup_successful, clock, apiVars, report,
                  console, monPc, monLine, monKey, partial >>

\* generate_report, lines 119-122: the timestamp, the flag and len(self.issues)
ReportTotal ==
  /\ mainPc = "g_total"
  /\ partial' = [partial EXCEPT !.test_timestamp = clock,
                                !.startup_successful = startup_successful,
                                !.total_issues = Len(issues)]
  /\ mainPc' = "g_critical"
  /\ UNCHANGED << fileVars, issues, startup_successful, clock, apiVars, report,
                  console, monPc, monLine, monKey >>

\* generate_report, line 123: the critical issues are counted
ReportCritical ==
  /\ mainPc = "g_critical"
  /\ partial' = [partial EXCEPT !.critical_issues = Len(WithSeverity(issues, "critical"))]
  /\ mainPc' = "g_warning"
  /\ UNCHANGED << fileVars, issues, startup_successful, clock, apiVars, report,
                  console, monPc, monLine, monKey >>

\* generate_report, line 124: the warnings are counted
ReportWarning ==
  /\ mainPc = "g_warning"
  /\ partial' = [partial EXCEPT !.warning_issues = Len(WithSeverity(issues, "warning"))]
  /\ mainPc' = "g_dump"
  /\ UNCHANGED << fileVars, issues, startup_successful, clock, apiVars, report,
                  console, monPc, monLine, monKey >>

\* generate_report, lines 125-131: "issues" is self.issues itself, and
\* json.dump writes the list as it is when the file is written
ReportDump ==
  /\ mainPc = "g_dump"
  /\ report' = << [ test_timestamp |-> partial.test_timestamp,
                    minecraft_directory |-> "minecraft_dir",
                    startup_successful |-> partial.startup_successful,
                    total_issues |-> partial.total_issues,
                    critical_issues |-> partial.critical_issues,
                    warning_issues |-> partial.warning_issues,
                    issues |-> issues ] >>
  /\ mainPc' = "g_print"
  /\ UNCHANGED << fileVars, issues, startup_successful, clock, apiVars, console,
                  monPc, monLine, monKey, partial >>

\* generate_report, lines 134-167: the summary is printed, the report returned
ReportPrint ==
  /\ mainPc = "g_print"
  /\ console' = console_summary(issues, startup_successful, report[1])
  /\ mainPc' = "done"
  /\ UNCHANGED << fileVars, issues, startup_successful, clock, apiVars, report,
                  monPc, monLine, monKey, partial >>

\* Monitor thread, lines 57-63
MonExists ==
  /\ monPc = "exists"
  /\ IF log_exists
     THEN monPc' = "open" /\ UNCHANGED issues
     ELSE monPc' = "done" /\ issues' = Append(issues, FileNotFoundIssue)
  /\ UNCHANGED << fileVars, startup_successful, clock, apiVars, report, console,
                  mainPc, monLine, monKey, partial >>

\* Monitor thread, lines 66-67 (and 77-82 when they raise)
MonRead ==
  /\ monPc = "open"
  /\ IF fault.at \in {"open", "read"}
     THEN monPc' = "done" /\ issues' = except_clause(issues, fault)
     ELSE monPc' = "analyze" /\ UNCHANGED issues
  /\ UNCHANGED << fileVars, startup_successful, clock, apiVars, report, console,
                  mainPc, monLine, monKey, partial >>

\* Monitor thread, lines 89-103: one signature is tested on one line
\* (and lines 77-82 when analyze_log_content raises at this line)
MonAnalyze ==
  /\ monPc = "analyze"
  /\ monLine <= Len(MonLines)
  /\ IF fault.at = "analyze" /\ fault.lines = monLine - 1
     THEN /\ monPc' = "done"
          /\ issues' = except_clause(issues, fault)
          /\ UNCHANGED << monLine, monKey >>
     ELSE /\ issues' = IF re_search(error_patterns(ErrorKinds[monKey]), MonLines[monLine])
                       THEN Append(issues, Issue(ErrorKinds[monKey], MonLines[monLine], clock))
                       ELSE issues
          /\ IF monKey < Len(ErrorKinds)
             THEN monKey' = monKey + 1 /\ UNCHANGED monLine
             ELSE monKey' = 1 /\ monLine' = monLine + 1
          /\ UNCHANGED monPc
  /\ UNCHANGED << fileVars, startup_successful, clock, apiVars, report, console,
                  mainPc, partial >>

\* Monitor thread, lines 71-75 (and 77-82 when the print raises)
MonSuccess ==
  /\ monPc = "analyze"
  /\ monLine > Len(MonLines)
  /\ monPc' = "done"
  /\ IF success_found(content)
     THEN /\ startup_successful' = TRUE
          /\ issues' = IF fault.at = "print"
                       THEN except_clause(issues, fault)
                       ELSE issues
     ELSE UNCHANGED << startup_successful, issues >>
  /\ UNCHANGED << fileVars, clock, apiVars, report, console, mainPc, monLine,
                  monKey, partial >>

NextRun ==
  \/ Launch \/ StartThread \/ Join \/ KeyboardInterrupt \/ Finally
  \/ ReportTotal \/ ReportCritical \/ ReportWarning \/ ReportDump \/ ReportPrint
  \/ MonExists \/ MonRead \/ MonAnalyze \/ MonSuccess

SpecRun == Init /\ [][NextRun]_vars

(* ------------------------------ properties ----------------------------- *)
HasReport == Len(report) = 1
Rep == report[1]

\* the report was made after exactly one call of monitor_logs on a fresh tester
FirstRunReport == HasReport /\ reportCalls = 1

\* how many issues of the sequence s have the severity sev, the type kind
CountSeverity(s, sev) == Cardinality({ n \in 1..Len(s) : s[n].severity = sev })
CountType(s, kind) == Cardinality({ n \in 1..Len(s) : s[n].type = kind })

\* the lines of LogLines that hold a success phrase, and those that hold a
\* phrase of a critical signature, as the program classifies them when run
SuccessPhraseLines ==
  { <<"Reached ", "main menu">>,
    <<"Client successfully started", " ", "Mixin conflict">> }
CriticalPhraseLines ==
  { <<"Forge", ":", " ", "Error", " loading ", "mod", ":", " ", "examplemod">>,
    <<"OutOfMemory", "Error", ":", " ", "Java heap space">>,
    <<" ", "JAVA VERSION", " ">> }
NoPhraseLines ==
  { <<"Reached ", "main menu">>, <<"Minecraft ", "main menu">>, <<"displayed">> }

HasLineIn(S) == \E i \in 1..Len(split(content)) : split(content)[i] \in S
AllLinesIn(S) == \A i \in 1..Len(split(content)) : split(content)[i] \in S \cup {<<>>}

\* the (line, signature) pairs of the text that match, among the first n lines
MatchingPairs(n) ==
  { p \in (1..n) \X (1..Len(ErrorKinds)) :
      /\ p[1] <= Len(split(content))
      /\ re_search(error_patterns(ErrorKinds[p[2]]), split(content)[p[1]]) }

\* p comes no later than q: earlier line, or same line and earlier signature
Before(p, q) == p[1] < q[1] \/ (p[1] = q[1] /\ p[2] <= q[2])

\* an issue without its timestamp
NoTime(i) ==
  IF "timestamp" \in DOMAIN i
  THEN [type |-> i.type, message |-> i.message, mod |-> i.mod, severity |-> i.severity]
  ELSE i
NoTimes(s) == [n \in 1..Len(s) |-> NoTime(s[n])]

\* C1: in every report made by generate_report, critical_issues +
\* warning_issues = total_issues = the length of issues, and every issue of
\* the tester has severity critical or warning.
C1_CountsAddUp ==
  /\ \A n \in 1..Len(issues) : issues[n].severity \in {"critical", "warning"}
  /\ HasReport =>
       /\ Rep.critical_issues + Rep.warning_issues = Rep.total_issues
       /\ Rep.total_issues = Len(Rep.issues)
       /\ Rep.critical_issues = CountSeverity(Rep.issues, "critical")
       /\ Rep.warning_issues = CountSeverity(Rep.issues, "warning")

C1_Witness ==
  HasReport /\ reportCalls >= 1 /\ Rep.critical_issues >= 2 /\ Rep.warning_issues >= 1

\* C2: when the log file does not exist, the report made after one call of
\* monitor_logs on a fresh tester holds exactly one issue, critical, of kind
\* file_not_found, nothing was analysed, and startup_successful is false.
C2_MissingFile ==
  (FirstRunReport /\ ~log_exists) =>
    /\ Rep.total_issues = 1
    /\ Len(Rep.issues) = 1
    /\ Rep.issues[1].type = "file_not_found"
    /\ Rep.issues[1].severity = "critical"
    /\ Rep.critical_issues = 1
    /\ Rep.startup_successful = FALSE

C2_Witness == FirstRunReport /\ ~log_exists /\ Len(Rep.issues) = 1

\* C3, as claimed: whenever a step of the try block of monitor_logs raises,
\* the report holds the read-error issue alone and startup_successful is false.
C3_ReadErrorAlone ==
  (FirstRunReport /\ log_exists /\ fault.at # "none") =>
    /\ Len(Rep.issues) = 1
    /\ Rep.issues[1].type = "log_read_error"
    /\ Rep.issues[1].severity = "critical"
    /\ Rep.startup_successful = FALSE

\* C3, amended: whenever a step of the try block raises, exactly one
\* read-error issue is appended, critical and last.  It is the only issue
\* and startup_successful is false when open or read raised.  When the
\* analysis raised, the issues of the lines analysed before stay in front of
\* it; when the print after the success match raised, all issues of the text
\* stay in front of it and startup_successful is true.
C3_ReadErrorAppended ==
  (FirstRunReport /\ log_exists /\ fault.at # "none") =>
    /\ CountType(Rep.issues, "log_read_error") = 1
    /\ Rep.issues[Len(Rep.issues)].type = "log_read_error"
    /\ Rep.issues[Len(Rep.issues)].severity = "critical"
    /\ fault.at \in {"open", "read"} =>
         Len(Rep.issues) = 1 /\ Rep.startup_successful = FALSE
    /\ fault.at = "analyze" =>
         /\ Len(Rep.issues) = 1 + Cardinality(MatchingPairs(fault.lines))
         /\ Rep.startup_successful = FALSE
    /\ fault.at = "print" =>
         /\ Len(Rep.issues) = 1 + Cardinality(MatchingPairs(Len(split(content))))
         /\ Rep.startup_successful = TRUE

C3_Witness ==
  FirstRunReport /\ log_exists /\ fault.at = "analyze" /\ Len(Rep.issues) >= 3

\* C4: after one complete analysis, each signature has exactly as many issues
\* as there are lines that match it, every issue is of a signature of the
\* table, and there are as many issues as matching (line, signature) pairs.
C4_OneIssuePerMatch ==
  (calls = 1 /\ log_exists /\ fault = NoFault) =>
    /\ \A k \in 1..Len(ErrorKinds) :
         Cardinality({ n \in 1..Len(issues) : issues[n].type = ErrorKinds[k] })
           = Cardinality({ i \in 1..Len(split(content)) :
                             re_search(error_patterns(ErrorKinds[k]), split(content)[i]) })
    /\ \A n \in 1..Len(issues) : \E k \in 1..Len(ErrorKinds) : issues[n].type = ErrorKinds[k]
    /\ Len(issues) = Cardinality(MatchingPairs(Len(split(content))))

\* one line that matches two signatures gave two issues, one of each kind
C4_Witness ==
  /\ calls = 1 /\ log_exists /\ fault = NoFault
  /\ Len(split(content)) = 1
  /\ Len(issues) = 2
  /\ issues[1].type # issues[2].type
  /\ issues[1].message = issues[2].message

\* C5: startup_successful is true only if the file was read and a line of it
\* holds a success phrase; and the report of a tester that read, without a
\* failure, a text with a success phrase and no line matching a signature has
\* startup_successful true and no issue.
C5_SuccessFlag ==
  /\ startup_successful =>
       log_exists /\ fault.at \in {"none", "print"} /\ HasLineIn(SuccessPhraseLines)
  /\ (HasReport /\ Rep.startup_successful) =>
       reportCalls >= 1 /\ HasLineIn(SuccessPhraseLines)
  /\ (HasReport /\ reportCalls >= 1 /\ log_exists /\ fault = NoFault
        /\ HasLineIn(SuccessPhraseLines) /\ AllLinesIn(NoPhraseLines)) =>
       Rep.startup_successful /\ Rep.total_issues = 0 /\ Rep.issues = <<>>

\* success together with a critical issue, found by the signatures
C5_Witness ==
  /\ FirstRunReport /\ fault = NoFault
  /\ Rep.startup_successful
  /\ Rep.critical_issues > 0

\* C6: an issue made by a signature is critical exactly when its kind is
\* mod_loading_error, memory_error or java_error, and a warning otherwise;
\* and the report of a tester that ran monitor_logs on a text with a line of
\* a critical signature and no success phrase has startup_successful false
\* and at least one critical issue.
C6_SeverityLookup ==
  /\ \A n \in 1..Len(issues) :
       "mod" \in DOMAIN issues[n] =>
         /\ issues[n].severity \in {"critical", "warning"}
         /\ issues[n].severity = "critical"
              <=> issues[n].type \in {"mod_loading_error", "memory_error", "java_error"}
  /\ (HasReport /\ reportCalls >= 1 /\ log_exists
        /\ HasLineIn(CriticalPhraseLines) /\ ~HasLineIn(SuccessPhraseLines)) =>
       Rep.startup_successful = FALSE /\ Rep.critical_issues >= 1

C6_Witness ==
  /\ FirstRunReport /\ log_exists /\ fault = NoFault
  /\ HasLineIn(CriticalPhraseLines) /\ ~HasLineIn(SuccessPhraseLines)
  /\ Rep.critical_issues >= 1
  /\ Rep.warning_issues >= 1

\* C7, as claimed: after the same text was classified twice by one tester,
\* the issue sequence of the tester equals, timestamps aside, the sequence it
\* held after the first classification.
C7_SecondEqualsFirst ==
  (calls = 2 /\ log_exists /\ fault = NoFault) =>
    NoTimes(issues) = NoTimes(history[1])

\* C7, amended: every classification of the same text appends the same
\* issues in the same order, timestamps aside, and the sequence of the tester
\* is these issues once per classification, one run after the other.
C7_SameIssuesAppended ==
  /\ \A c \in 1..calls : NoTimes(history[c]) = NoTimes(history[1])
  /\ calls >= 1 => Len(issues) = calls * Len(history[1])
  /\ \A n \in 1..Len(issues) :
       NoTime(issues[n]) = NoTime(history[1][((n - 1) % Len(history[1])) + 1])

C7_Witness ==
  /\ calls = 2 /\ log_exists /\ fault = NoFault
  /\ Len(history[1]) >= 2
  /\ Len(issues) = 2 * Len(history[1])

\* C8: the summary lists every critical issue; it lists the first 5 warnings
\* in the order they were found; with more than 5 warnings it shows exactly 5
\* of them and then one "more" line with the number of warnings minus 5, with
\* 5 or fewer it shows no "more" line; a block without entries has no header.
LinesOf(kind) == { n \in 1..Len(console) : console[n].line = kind }
Warnings == { n \in 1..Len(Rep.issues) : Rep.issues[n].severity = "warning" }
\* the index in issues of the k-th warning
NthWarning(k) ==
  CHOOSE n \in Warnings : Cardinality({ m \in Warnings : m <= n }) = k
\* the index in console of the k-th warning entry
NthWarningLine(k) ==
  CHOOSE n \in LinesOf("warning_entry") :
    Cardinality({ m \in LinesOf("warning_entry") : m <= n }) = k

\* the same for the critical issues and their entries
Criticals == { n \in 1..Len(Rep.issues) : Rep.issues[n].severity = "critical" }
NthCritical(k) ==
  CHOOSE n \in Criticals : Cardinality({ m \in Criticals : m <= n }) = k
NthCriticalLine(k) ==
  CHOOSE n \in LinesOf("critical_entry") :
    Cardinality({ m \in LinesOf("critical_entry") : m <= n }) = k

C8_Truncation ==
  HasReport =>
    /\ Cardinality(LinesOf("issues_detected")) = IF Len(Rep.issues) > 0 THEN 1 ELSE 0
    /\ Cardinality(LinesOf("critical_entry")) = Cardinality(Criticals)
    /\ \A k \in 1..Cardinality(Criticals) :
         /\ console[NthCriticalLine(k)].type = Upper(Rep.issues[NthCritical(k)].type)
         /\ console[NthCriticalLine(k)].message = Rep.issues[NthCritical(k)].message
    /\ \A n \in LinesOf("critical_entry"), m \in LinesOf("warning_entry") : n < m
    /\ Cardinality(LinesOf("critical_header")) = IF Cardinality(Criticals) > 0 THEN 1 ELSE 0
    /\ Cardinality(LinesOf("warnings_header")) = IF Cardinality(Warnings) > 0 THEN 1 ELSE 0
    /\ Cardinality(LinesOf("warning_entry"))
         = IF Cardinality(Warnings) > 5 THEN 5 ELSE Cardinality(Warnings)
    /\ \A k \in 1..Cardinality(LinesOf("warning_entry")) :
         /\ console[NthWarningLine(k)].type = Upper(Rep.issues[NthWarning(k)].type)
         /\ console[NthWarningLine(k)].message = Rep.issues[NthWarning(k)].message
    /\ Cardinality(LinesOf("more")) = IF Cardinality(Warnings) > 5 THEN 1 ELSE 0
    /\ \A n \in LinesOf("more") :
         /\ console[n].n = Cardinality(Warnings) - 5
         /\ console[n - 1].line = "warning_entry"
         /\ \A m \in LinesOf("warning_entry") : m < n

C8_Witness ==
  /\ HasReport
  /\ Cardinality(Warnings) = 6
  /\ \E n \in LinesOf("more") : console[n].n = 1
  /\ Cardinality(LinesOf("warning_entry")) = 5

\* C9, as claimed: while generate_report runs in run_test, the monitor thread
\* has not been started or has ended.
C9_ReportAfterMonitor ==
  mainPc \in {"g_total", "g_critical", "g_warning", "g_dump", "g_print"} =>
    monPc \in {"not_started", "done"}

\* C10: after one complete analysis the issues are the matching
\* (line, signature) pairs in ascending order of line and, within a line, of
\* the signature table, whether or not the text holds a success phrase.
C10_DiscoveryOrder ==
  (calls = 1 /\ log_exists /\ fault.at \in {"none", "print"}) =>
    LET pairs == MatchingPairs(Len(split(content))) IN
    /\ Len(issues) = Cardinality(pairs) + (IF fault.at = "print" THEN 1 ELSE 0)
    /\ \A p \in pairs :
         LET rank == Cardinality({ q \in pairs : Before(q, p) }) IN
         /\ issues[rank].type = ErrorKinds[p[2]]
         /\ issues[rank].message = strip(split(content)[p[1]])

\* a success phrase on line 1, and the issues of line 2 are all there
C10_Witness ==
  /\ calls = 1 /\ log_exists /\ fault = NoFault
  /\ startup_successful
  /\ Len(split(content)) = 2
  /\ split(content)[1] = <<"Reached ", "main menu">>
  /\ Len(issues) = 3

====
